---- MODULE Spec2Model ----
(***************************************************************************)
(* A model of parse_logs_with_llm.py: reading log files, packing their     *)
(* lines into chunks, querying the completion backend once per chunk,      *)
(* decoding each response and printing the accumulated detections.         *)
(*                                                                         *)
(* Texts are sequences of one-character tokens:                            *)
(*   "[" "]" "{" "}" "," ":"  the JSON punctuation                         *)
(*   "q"  a double quote          "a"  any other ordinary character        *)
(*   "n"  the literal null        "s"  a whitespace character              *)
(*   "T"  the marker <think>      "U"  the marker </think>                 *)
(* A decoded JSON value is the record [t, text, elems]: its kind, its      *)
(* text with the insignificant whitespace removed, and, for an array, the  *)
(* texts of its elements.                                                  *)
(***************************************************************************)
EXTENDS Integers, Sequences, FiniteSets, TLC

VARIABLES pc, args, log_files, fi, lines, log_chunks, ci, final_results,
          stdout, stderr, emitted, calls, reply, result

vars == <<pc, args, log_files, fi, lines, log_chunks, ci, final_results,
          stdout, stderr, emitted, calls, reply, result>>

(* ------------------------------ bounds --------------------------------- *)

\* Most files one run enumerates.
MaxFiles == 2

\* Most lines of an input of create_chunks checked on its own.
MaxChunkInput == 3

\* Longest backend text enumerated token by token.
MaxRawLen == 2

\* Most detection objects in an array of the round-trip inputs.
MaxDetections == 2

(* --------------------------- configuration ----------------------------- *)

MAX_CHARS_PER_CHUNK == 5000

(* ------------------------------ helpers -------------------------------- *)

Min(S) == CHOOSE x \in S : \A y \in S : x <= y

RECURSIVE Flatten(_)
Flatten(ss) == IF ss = <<>> THEN <<>> ELSE Head(ss) \o Flatten(Tail(ss))

RECURSIVE SeqsUpTo(_, _)
SeqsUpTo(S, n) ==
    IF n = 0 THEN {<<>>}
    ELSE LET shorter == SeqsUpTo(S, n - 1)
         IN  shorter \cup {Append(q, x) : q \in shorter, x \in S}

(* ------------------------- json.loads (library) ------------------------ *)

Tokens == {"[", "]", "{", "}", ",", ":", "q", "a", "n", "s", "T", "U"}

NoValue == [ok |-> FALSE, next |-> 0, t |-> "none", text |-> <<>>, elems |-> <<>>]

EmptyArray == [t |-> "arr", text |-> <<"[", "]">>, elems |-> <<>>]

RECURSIVE SkipWs(_, _)
SkipWs(s, i) == IF i <= Len(s) /\ s[i] = "s" THEN SkipWs(s, i + 1) ELSE i

\* A string runs from its opening quote to the next quote.
ParseString(s, i) ==
    LET closing == {j \in (i + 1)..Len(s) : s[j] = "q"}
    IN  IF i > Len(s) \/ s[i] # "q" \/ closing = {} THEN NoValue
        ELSE [ok |-> TRUE, next |-> Min(closing) + 1, t |-> "str",
              text |-> SubSeq(s, i, Min(closing)), elems |-> <<>>]

RECURSIVE ParseValue(_, _), ParseItems(_, _, _), ParseMembers(_, _, _)

ParseValue(s, i) ==
    IF i > Len(s) THEN NoValue
    ELSE CASE s[i] = "q" -> ParseString(s, i)
           [] s[i] = "n" -> [ok |-> TRUE, next |-> i + 1, t |-> "null",
                             text |-> <<"n">>, elems |-> <<>>]
           [] s[i] = "[" ->
                LET j == SkipWs(s, i + 1)
                IN  IF j <= Len(s) /\ s[j] = "]"
                    THEN [ok |-> TRUE, next |-> j + 1, t |-> "arr",
                          text |-> <<"[", "]">>, elems |-> <<>>]
                    ELSE ParseItems(s, j, <<>>)
           [] s[i] = "{" ->
                LET j == SkipWs(s, i + 1)
                IN  IF j <= Len(s) /\ s[j] = "}"
                    THEN [ok |-> TRUE, next |-> j + 1, t |-> "obj",
                          text |-> <<"{", "}">>, elems |-> <<>>]
                    ELSE ParseMembers(s, j, <<"{">>)
           [] OTHER -> NoValue

\* The elements of an array after "[", acc holding the texts parsed so far.
ParseItems(s, j, acc) ==
    LET v == ParseValue(s, j)
        k == SkipWs(s, v.next)
        got == Append(acc, v.text)
    IN  IF ~v.ok \/ k > Len(s) THEN NoValue
        ELSE IF s[k] = "," THEN ParseItems(s, SkipWs(s, k + 1), got)
        ELSE IF s[k] = "]"
             THEN [ok |-> TRUE, next |-> k + 1, t |-> "arr",
                   text |-> <<"[">> \o Flatten([x \in 1..Len(got) |->
                               IF x = 1 THEN got[x] ELSE <<",">> \o got[x]])
                            \o <<"]">>,
                   elems |-> got]
        ELSE NoValue

\* The members of an object after "{", acc holding the text parsed so far.
ParseMembers(s, j, acc) ==
    LET key == ParseString(s, j)
        c == SkipWs(s, key.next)
        v == ParseValue(s, SkipWs(s, c + 1))
        k == SkipWs(s, v.next)
        got == acc \o key.text \o <<":">> \o v.text
    IN  IF ~key.ok \/ c > Len(s) \/ s[c] # ":" THEN NoValue
        ELSE IF ~v.ok \/ k > Len(s) THEN NoValue
        ELSE IF s[k] = "," THEN ParseMembers(s, SkipWs(s, k + 1), Append(got, ","))
        ELSE IF s[k] = "}"
             THEN [ok |-> TRUE, next |-> k + 1, t |-> "obj",
                   text |-> Append(got, "}"), elems |-> <<>>]
        ELSE NoValue

\* json.loads: one value, whitespace around it, nothing else; ok = FALSE
\* stands for JSONDecodeError.
JsonLoads(s) ==
    LET v == ParseValue(s, SkipWs(s, 1))
    IN  IF v.ok /\ SkipWs(s, v.next) = Len(s) + 1
        THEN [ok |-> TRUE, t |-> v.t, text |-> v.text, elems |-> v.elems]
        ELSE [ok |-> FALSE, t |-> "none", text |-> <<>>, elems |-> <<>>]

(* -------------------------- parse_llm_response ------------------------- *)

\* re.sub(r'<think>.*?</think>', '', text, flags=re.DOTALL)
RECURSIVE StripThink(_)
StripThink(s) ==
    LET opens == {i \in 1..Len(s) : s[i] = "T" /\ \E j \in (i + 1)..Len(s) : s[j] = "U"}
    IN  IF opens = {} THEN s
        ELSE LET i == Min(opens)
                 j == Min({k \in (i + 1)..Len(s) : s[k] = "U"})
             IN  SubSeq(s, 1, i - 1) \o StripThink(SubSeq(s, j + 1, Len(s)))

\* str.strip()
RECURSIVE Strip(_)
Strip(s) ==
    IF s = <<>> THEN s
    ELSE IF Head(s) = "s" THEN Strip(Tail(s))
    ELSE IF s[Len(s)] = "s" THEN Strip(SubSeq(s, 1, Len(s) - 1))
    ELSE s

\* The ends e of a match of \[\s*\{.*?\}\s*\] that starts at i.
MatchEnds(s, i) ==
    LET b == SkipWs(s, i + 1)
    IN  IF s[i] # "[" \/ b > Len(s) \/ s[b] # "{" THEN {}
        ELSE {e \in (b + 2)..Len(s) :
                /\ s[e] = "]"
                /\ \E k \in (b + 1)..(e - 1) :
                      /\ s[k] = "}"
                      /\ \A w \in (k + 1)..(e - 1) : s[w] = "s"}

\* re.match in the place of re.search: a match at the start of the text only.
RegexMatchArray(s) ==
    IF s # <<>> /\ MatchEnds(s, 1) # {} THEN SubSeq(s, 1, Min(MatchEnds(s, 1))) ELSE <<>>

\* re.search(r'\[\s*\{.*?\}\s*\]', content, re.DOTALL): the leftmost start
\* that matches, and from it the shortest match; <<>> when nothing matches.
RegexSearchArray(s) ==
    LET starts == {i \in 1..Len(s) : MatchEnds(s, i) # {}}
    IN  IF starts = {} THEN <<>>
        ELSE SubSeq(s, Min(starts), Min(MatchEnds(s, Min(starts))))

Returned(v) == [raised |-> FALSE, warned |-> FALSE,
                value |-> [t |-> v.t, text |-> v.text, elems |-> v.elems]]

\* The warning printed and no return statement after it: None returned.
GaveUpReturningNone ==
    [raised |-> FALSE, warned |-> TRUE,
     value |-> [t |-> "null", text |-> <<"n">>, elems |-> <<>>]]

\* Every strategy failed: the warning is printed and [] returned.
GaveUp == [raised |-> FALSE, warned |-> TRUE, value |-> EmptyArray]

parse_llm_response(text) ==
    LET whole == JsonLoads(text)
        content == StripThink(text)
        stripped == JsonLoads(Strip(content))
        json_match == RegexSearchArray(content)
        matched == JsonLoads(json_match)
    IN  IF whole.ok THEN Returned(whole)
        ELSE IF stripped.ok THEN Returned(stripped)
        ELSE IF json_match # <<>> /\ matched.ok THEN Returned(matched)
        ELSE GaveUp

(* ------------------------------ log lines ------------------------------ *)

(* A raw line is [fields, len]: its tab-separated fields, each the sequence *)
(* of its space-separated words, and its length in characters.             *)

\* Seconds from 2025-01-01 00:00:00 of the dates and times the logs use.
DateVal == [d \in {"2025-01-01", "2025-07-01", "2025-Jul-01"} |->
              IF d = "2025-01-01" THEN 0 ELSE 181 * 86400]

TimeVal == [t \in {"10:00:00", "13:00:00", "17:20:40"} |->
              CASE t = "10:00:00" -> 10 * 3600
                [] t = "13:00:00" -> 13 * 3600
                [] t = "17:20:40" -> 17 * 3600 + 20 * 60 + 40]

\* No timestamp (Python's None).
None == -1

\* datetime.strptime(date + " " + time, "%Y-%m-%d %H:%M:%S"); None stands
\* for ValueError.
Strptime(date, time) ==
    IF date \in {"2025-01-01", "2025-07-01"} /\ time \in DOMAIN TimeVal
    THEN DateVal[date] + TimeVal[time]
    ELSE None

\* line.split()
Words(line) == Flatten(line.fields)

parse_timestamp_gdata_header(line) ==
    LET header_parts == line.fields
    IN  IF Len(header_parts) > 2
        THEN IF Len(header_parts) < 4 THEN None    \* IndexError
             ELSE IF \E i \in 1..(Len(header_parts[4]) - 1) :
                        header_parts[4][i] = "Virus" /\ header_parts[4][i + 1] = "check"
                  THEN IF Len(header_parts[3]) = 2
                       THEN Strptime(header_parts[3][1], header_parts[3][2])
                       ELSE None                    \* ValueError
                  ELSE None
        ELSE None

parse_timestamp_drweb(line) ==
    LET parts == Words(line)
    IN  IF Len(parts) < 2 THEN None
        ELSE IF parts[1] = "2025-Jul-01" /\ parts[2] = "17:20:40.322968"
             THEN DateVal["2025-Jul-01"] + TimeVal["17:20:40"]
             ELSE None

parse_timestamp_mpdetection(line) ==
    LET parts == Words(line)
    IN  IF parts # <<>> /\ parts[1] = "2025-01-01T10:00:00.281"
        THEN DateVal["2025-01-01"] + TimeVal["10:00:00"]
        ELSE None

parse_timestamp_standard(line) ==
    LET parts == Words(line)
    IN  IF Len(parts) < 2 THEN None ELSE Strptime(parts[1], parts[2])

parse_timestamp_db_dump(line) ==
    LET parts == Words(line)
    IN  IF Len(parts) < 2 THEN None
        ELSE Strptime(parts[Len(parts) - 1], parts[Len(parts)])

\* 2025-01-01 10:00:00 FOUND Trojan.Generic
TrojanLine == [fields |-> << <<"2025-01-01", "10:00:00", "FOUND", "Trojan.Generic">> >>,
               len |-> 40]

\* 2025-01-01 13:00:00 FOUND Worm.X
WormLine == [fields |-> << <<"2025-01-01", "13:00:00", "FOUND", "Worm.X">> >>,
             len |-> 33]

\* 04<TAB>0000000002<TAB>2025-07-01 17:20:40<TAB>Virus check<TAB><TAB>3
GdataHeader == [fields |-> << <<"04">>, <<"0000000002">>, <<"2025-07-01", "17:20:40">>,
                              <<"Virus", "check">>, <<>>, <<"3">> >>,
                len |-> 49]

\* 64<TAB>6<TAB>0<TAB><TAB>Virus: EICAR-Test-File
GdataBody == [fields |-> << <<"64">>, <<"6">>, <<"0">>, <<>>, <<"Virus:", "EICAR-Test-File">> >>,
              len |-> 32]

\* A detection inside the window with a long path.
LongLine == [fields |-> << <<"2025-01-01", "10:00:00", "FOUND", "Trojan.Generic", "path">> >>,
             len |-> 3000]

\* Half of the largest chunk.
HalfLine == [fields |-> << <<"2025-01-01T10:00:00.281", "DETECTION", "path">> >>,
             len |-> 2500]

\* One character more than the largest chunk, and no timestamp.
OversizedLine == [fields |-> << <<"path">> >>, len |-> 5001]

\* # a comment
CommentLine == [fields |-> << <<"#", "2025-01-01", "10:00:00">> >>, len |-> 22]

\* An empty line: its line break only.
BlankLine == [fields |-> << <<>> >>, len |-> 1]

(* ----------------------------- create_chunks --------------------------- *)

(* A chunk is a text: the sequence of its pieces, each a whole line or the *)
(* one-character separator "\n" that join puts between two lines.          *)

LinePiece(line) == [sep |-> FALSE, line |-> line]

Separator == [sep |-> TRUE, line |-> BlankLine]

\* "\n".join(current_chunk)
Join(current_chunk) ==
    Flatten([i \in 1..Len(current_chunk) |->
               IF i = 1 THEN <<LinePiece(current_chunk[i])>>
               ELSE <<Separator, LinePiece(current_chunk[i])>>])

\* len(chunk)
RECURSIVE CharLen(_)
CharLen(chunk) == IF chunk = <<>> THEN 0 ELSE Head(chunk).line.len + CharLen(Tail(chunk))

\* The line that closes a chunk left out of the next one.
TakeLineDroppingIt(current_chunk, flush, line) ==
    IF flush THEN <<>> ELSE Append(current_chunk, line)

\* The current chunk once the line is taken: a new one after a flush.
TakeLine(current_chunk, flush, line) ==
    Append(IF flush THEN <<>> ELSE current_chunk, line)

RECURSIVE ChunkLoop(_, _, _, _)
ChunkLoop(ls, chunks, current_chunk, current_length) ==
    IF ls = <<>>
    THEN IF current_chunk # <<>> THEN Append(chunks, Join(current_chunk)) ELSE chunks
    ELSE LET line == Head(ls)
             flush == current_length + line.len > MAX_CHARS_PER_CHUNK
         IN  ChunkLoop(Tail(ls),
                       IF flush THEN Append(chunks, Join(current_chunk)) ELSE chunks,
                       TakeLine(current_chunk, flush, line),
                       (IF flush THEN 0 ELSE current_length) + line.len)

create_chunks(ls) == ChunkLoop(ls, <<>>, <<>>, 0)

\* A chunk read back as lines (str.splitlines): the texts between its
\* separators, and no line at all for the empty text.
ReadLines(chunk) ==
    LET seps == {i \in 1..Len(chunk) : chunk[i].sep}
        bounds == seps \cup {0, Len(chunk) + 1}
        starts == {b \in bounds : b <= Len(chunk)}
        Nth(k) == CHOOSE b \in starts : Cardinality({c \in starts : c < b}) = k - 1
        End(b) == Min({c \in bounds : c > b})
    IN  IF chunk = <<>> THEN <<>>
        ELSE [k \in 1..Cardinality(starts) |-> SubSeq(chunk, Nth(k) + 1, End(Nth(k)) - 1)]

\* The lines of all the chunks, in order.
AllLines(chunks) == Flatten([i \in 1..Len(chunks) |-> ReadLines(chunks[i])])

\* The lines ls as texts.
AsTexts(ls) == [i \in 1..Len(ls) |-> <<LinePiece(ls[i])>>]

(* ------------------------- the backend's replies ----------------------- *)

\* The text of a signature: ordinary, or holding brackets or think markers.
SigBodies == {<<"a">>, <<"a", "a">>, <<"[", "{", "a", "]">>, <<"a", "}", "]">>,
              <<"T", "a", "U">>}

\* {"signature": "<sig>", "timestamp": "..."} without its whitespace.
Detection(sig) ==
    <<"{", "q", "a", "q", ":", "q">> \o sig \o <<"q", ",", "q", "a", "a", "q", ":", "q", "a", "q", "}">>

Detections == {Detection(sig) : sig \in SigBodies}

\* The JSON text of the array of the objects ds, each separator followed by
\* the whitespace gap (none: compact; one character: indented).
ArrayText(ds, gap) ==
    IF ds = <<>> THEN <<"[", "]">>
    ELSE <<"[">> \o gap
         \o Flatten([x \in 1..Len(ds) |->
                       IF x = 1 THEN ds[x] ELSE <<",">> \o gap \o ds[x]])
         \o gap \o <<"]">>

Gaps == {<<>>, <<"s">>}

\* What a backend writes around the array.
LeadingProse == {<<>>, <<"s">>, <<"a", ":", "s">>, <<"a", "[", "{", "a", "}", "]", "s">>}
TrailingProse == {<<>>, <<"s", "a">>}
ThinkBlocks == {<<>>, <<"T", "a", "[", "{", "U">>}

WrappedReply(ds, gap, pre, think, post) ==
    [wrapped |-> TRUE, array |-> ds, pre |-> pre, think |-> think, post |-> post,
     text |-> pre \o think \o ArrayText(ds, gap) \o post]

RawReply(text) ==
    [wrapped |-> FALSE, array |-> <<>>, pre |-> <<>>, think |-> <<>>, post |-> <<>>,
     text |-> text]

NoReply == RawReply(<<>>)

DecoderReplies ==
    {RawReply(t) : t \in SeqsUpTo(Tokens, MaxRawLen)}
    \cup {WrappedReply(ds, gap, pre, think, post) :
            ds \in SeqsUpTo(Detections, MaxDetections), gap \in Gaps,
            pre \in LeadingProse, think \in ThinkBlocks, post \in TrailingProse}

(* --------------------- the decoder checked on its own ------------------ *)

NoResult == [raised |-> FALSE, warned |-> FALSE, value |-> EmptyArray]

Idle == /\ args = [start |-> 0, end |-> 0]
        /\ log_files = <<>>
        /\ fi = 0
        /\ lines = <<>>
        /\ log_chunks = <<>>
        /\ ci = 0
        /\ final_results = <<>>
        /\ stdout = <<>>
        /\ stderr = <<>>
        /\ emitted = <<>>
        /\ calls = <<>>

InitDecoder ==
    /\ pc = "decode"
    /\ reply \in DecoderReplies
    /\ result = NoResult
    /\ Idle

\* parse_llm_response(response_text), with its warning on the error stream.
Decode ==
    /\ pc = "decode"
    /\ result' = parse_llm_response(reply.text)
    /\ stderr' = IF result'.warned THEN Append(stderr, "Warning: Could not parse LLM response")
                 ELSE stderr
    /\ pc' = "decoded"
    /\ UNCHANGED <<args, log_files, fi, lines, log_chunks, ci, final_results,
                   stdout, emitted, calls, reply>>

SpecDecoder == InitDecoder /\ [][Decode]_vars

(* ------------------- create_chunks checked on its own ------------------ *)

ChunkInputLines == {TrojanLine, WormLine, GdataHeader, LongLine, HalfLine,
                    OversizedLine, CommentLine, BlankLine}

InitChunks ==
    /\ pc = "chunk"
    /\ args = [start |-> 0, end |-> 0]
    /\ log_files = <<>>
    /\ fi = 0
    /\ lines \in SeqsUpTo(ChunkInputLines, MaxChunkInput)
    /\ log_chunks = <<>>
    /\ ci = 0
    /\ final_results = <<>>
    /\ stdout = <<>>
    /\ stderr = <<>>
    /\ emitted = <<>>
    /\ calls = <<>>
    /\ reply = NoReply
    /\ result = NoResult

Chunk ==
    /\ pc = "chunk"
    /\ log_chunks' = create_chunks(lines)
    /\ pc' = "chunked"
    /\ UNCHANGED <<args, log_files, fi, lines, ci, final_results, stdout, stderr,
                   emitted, calls, reply, result>>

SpecChunks == InitChunks /\ [][Chunk]_vars

(* -------------------------------- main --------------------------------- *)

\* --start and --end: 2025-01-01 09:00:00 and 2025-01-01 11:00:00.
Windows == {[start |-> 9 * 3600, end |-> 11 * 3600]}

\* The files of the runs: an empty one, the two-line generic log, a G DATA
\* block under its header, two lines that fill a chunk each, and a line
\* longer than a chunk.
SampleFiles == {<<>>,
                <<TrojanLine, WormLine>>,
                <<GdataHeader, GdataBody>>,
                <<LongLine, LongLine>>,
                <<OversizedLine>>}

\* What a path holds: its lines, or nothing any encoding can read.
FileSystem == [readable : BOOLEAN, content : SampleFiles]

get_log_lines(file) == IF file.readable THEN file.content ELSE <<>>

FirstDetection == Detection(<<"a">>)
SecondDetection == Detection(<<"a", "a">>)

\* The texts a backend answers a chunk with: an array, an array inside a
\* think block and prose, and no JSON at all.
MainReplies ==
    {WrappedReply(<<FirstDetection>>, <<>>, <<>>, <<>>, <<>>),
     WrappedReply(<<SecondDetection, FirstDetection>>, <<"s">>, <<"a", ":", "s">>,
                  <<"T", "a", "U">>, <<"s", "a">>),
     RawReply(<<"a", "s", "a">>)}

\* requests.exceptions.RequestException: a timeout, a refused connection,
\* and raise_for_status on 400 and on 500.
Failures == {"Timeout", "ConnectionError", "HTTPError 400", "HTTPError 500"}

\* json.dumps(final_results, indent=2), and print's line break.
Dumps(results) == ArrayText(results, <<"s">>) \o <<"s">>

\* Found: N records, and print's line break.
FoundLine == <<"a", ":", "s", "a", "s", "a", "s">>

Init ==
    /\ pc = "get_log_files"
    /\ args \in Windows
    /\ log_files = <<>>
    /\ fi = 0
    /\ lines = <<>>
    /\ log_chunks = <<>>
    /\ ci = 0
    /\ final_results = <<>>
    /\ stdout = <<>>
    /\ stderr = <<>>
    /\ emitted = <<>>
    /\ calls = <<>>
    /\ reply = NoReply
    /\ result = NoResult

\* get_log_files: the paths the pattern resolves to, or exit status 1.
GetLogFiles ==
    /\ pc = "get_log_files"
    /\ \E n \in 0..MaxFiles :
          /\ log_files' = [i \in 1..n |-> i]
          /\ pc' = IF n = 0 THEN "exit 1" ELSE "for log_path"
          /\ stderr' = IF n = 0 THEN Append(stderr, "No files found") ELSE stderr
    /\ fi' = 1
    /\ UNCHANGED <<args, lines, log_chunks, ci, final_results, stdout, emitted,
                   calls, reply, result>>

\* The head of the loop over the files: read, chunk, reset the results.
ReadFile ==
    /\ pc = "for log_path"
    /\ fi <= Len(log_files)
    /\ \E file \in FileSystem :
          /\ lines' = get_log_lines(file)
          /\ log_chunks' = create_chunks(lines')
    /\ stderr' = stderr \o <<"Filtering file", "Split logs into chunks">>
    /\ final_results' = <<>>
    /\ ci' = 1
    /\ pc' = "for chunk"
    /\ UNCHANGED <<args, log_files, fi, stdout, emitted, calls, reply, result>>

\* if isinstance(result, list) and result: final_results.extend(result)
Extended(results, value) ==
    IF value.t = "arr" /\ value.elems # <<>> THEN results \o value.elems ELSE results

\* call_llm returns: the response is decoded and its detections kept. An
\* exception of the decoder is no RequestException: it would end the run.
CallReturns ==
    /\ pc = "for chunk"
    /\ ci <= Len(log_chunks)
    /\ \E r \in MainReplies :
          /\ reply' = r
          /\ result' = parse_llm_response(r.text)
    /\ stderr' = stderr \o <<"Querying LLM for chunk">>
                 \o (IF result'.warned THEN <<"Warning: Could not parse LLM response">>
                     ELSE <<>>)
    /\ final_results' = Extended(final_results, result'.value)
    /\ calls' = Append(calls, [file |-> fi, chunk |-> ci, ok |-> TRUE,
                               got |-> Extended(<<>>, result'.value)])
    /\ ci' = ci + 1
    /\ pc' = IF result'.raised THEN "traceback" ELSE pc
    /\ UNCHANGED <<args, log_files, fi, lines, log_chunks, stdout, emitted>>

\* The results of the earlier chunks lost with the failed one.
AfterFailureForgetting(results, chunk) == [results |-> <<>>, chunk |-> chunk + 1]

\* What a failed call leaves of the loop's state: [results, next chunk].
AfterFailure(results, chunk) == [results |-> results, chunk |-> chunk + 1]

\* call_llm raises a RequestException: reported, and on to the next chunk.
CallFails ==
    /\ pc = "for chunk"
    /\ ci <= Len(log_chunks)
    /\ \E e \in Failures :
          stderr' = stderr \o <<"Querying LLM for chunk">>
                    \o (IF e = "HTTPError 400" THEN <<"Error: 400 Bad Request">> ELSE <<>>)
                    \o <<"Error calling LLM for chunk">>
    /\ final_results' = AfterFailure(final_results, ci).results
    /\ ci' = AfterFailure(final_results, ci).chunk
    /\ calls' = Append(calls, [file |-> fi, chunk |-> ci, ok |-> FALSE, got |-> <<>>])
    /\ UNCHANGED <<pc, args, log_files, fi, lines, log_chunks, stdout, emitted,
                   reply, result>>

\* After the last chunk of a file: both prints go to standard output.
PrintResults ==
    /\ pc = "for chunk"
    /\ ci > Len(log_chunks)
    /\ stdout' = stdout \o Dumps(final_results) \o FoundLine
    /\ emitted' = Append(emitted, final_results)
    /\ fi' = fi + 1
    /\ pc' = "for log_path"
    /\ UNCHANGED <<args, log_files, lines, log_chunks, ci, final_results, stderr,
                   calls, reply, result>>

\* After the last file main returns.
Finish ==
    /\ pc = "for log_path"
    /\ fi > Len(log_files)
    /\ pc' = "done"
    /\ UNCHANGED <<args, log_files, fi, lines, log_chunks, ci, final_results,
                   stdout, stderr, emitted, calls, reply, result>>

Next == GetLogFiles \/ ReadFile \/ CallReturns \/ CallFails \/ PrintResults \/ Finish

Spec == Init /\ [][Next]_vars

\* The run is sequential and every backend call ends (LLM_TIMEOUT): a step
\* that can be taken is taken.
FairSpec == Spec /\ WF_vars(Next)

(* ------------------------------- claims -------------------------------- *)

\* The Timestamp Extraction Pipeline: the first parser, in priority order,
\* that finds a timestamp in the line.
LineTimestamp(line) ==
    IF parse_timestamp_mpdetection(line) # None THEN parse_timestamp_mpdetection(line)
    ELSE IF parse_timestamp_drweb(line) # None THEN parse_timestamp_drweb(line)
    ELSE IF parse_timestamp_standard(line) # None THEN parse_timestamp_standard(line)
    ELSE parse_timestamp_db_dump(line)

InWindow(t) == t # None /\ args.start <= t /\ t <= args.end

\* A line the per-line policy keeps: not blank, no comment, and a timestamp
\* inside the window.
Retained(line) ==
    /\ Words(line) # <<>>
    /\ Words(line)[1] # "#"
    /\ InWindow(LineTimestamp(line))

\* A block under a G DATA "Virus check" header row.
IsGdataBlock(ls) ==
    /\ ls # <<>>
    /\ Len(ls[1].fields) > 3
    /\ \E i \in 1..(Len(ls[1].fields[4]) - 1) :
          ls[1].fields[4][i] = "Virus" /\ ls[1].fields[4][i + 1] = "check"

\* C1: of a generic line-based log, the lines forwarded to chunking are
\* exactly the non-blank, non-comment lines whose timestamp is recoverable
\* and inside the window, in order; of scenario 1 exactly one line is kept.
C1_PerLineWindowFilter ==
    (pc = "for chunk" /\ ~IsGdataBlock(lines))
        => AllLines(log_chunks) = AsTexts(SelectSeq(lines, Retained))

\* C2: of a block whose header timestamp is outside the window or cannot be
\* parsed, no line is placed in any chunk.
C2_GlobalHeaderFilter ==
    (pc = "for chunk" /\ IsGdataBlock(lines)
        /\ ~InWindow(parse_timestamp_gdata_header(lines[1])))
        => \A i \in 1..Len(log_chunks) : ReadLines(log_chunks[i]) = <<>>

\* C3: the chunks of create_chunks, each read as its lines and taken in
\* order, concatenate to exactly the input lines: none lost, split,
\* repeated or moved.
C3_ChunkerPartition ==
    pc = "chunked" => AllLines(log_chunks) = AsTexts(lines)

\* C3's case: several chunks, one of them of several lines.
C3_Witness ==
    /\ pc = "chunked"
    /\ Len(log_chunks) >= 2
    /\ \E i \in 1..Len(log_chunks) : Len(ReadLines(log_chunks[i])) >= 2

\* C4: every chunk of create_chunks is at most MAX_CHARS_PER_CHUNK
\* characters long, unless it is one line that is longer by itself.
C4_ChunkSizeBound ==
    pc = "chunked" =>
        \A i \in 1..Len(log_chunks) :
            \/ CharLen(log_chunks[i]) <= MAX_CHARS_PER_CHUNK
            \/ Len(ReadLines(log_chunks[i])) = 1

\* C5: when main returns, standard output holds exactly one JSON array and
\* nothing else.
C5_StdoutIsOneJsonArray ==
    pc = "done" => (JsonLoads(stdout).ok /\ JsonLoads(stdout).t = "arr")

\* The last call of the file being processed failed.
JustFailed ==
    /\ pc = "for chunk"
    /\ calls # <<>>
    /\ calls[Len(calls)].file = fi
    /\ ~calls[Len(calls)].ok

\* C6: a failed backend call changes neither the results accumulated so far
\* nor standard output and moves main to the next chunk; no chunk is called
\* twice; the step after a failure is the call for the next chunk of the
\* file, if it has one; and after a failure the file's results are printed.
C6_FailureIsolation ==
    /\ [][(calls' # calls /\ ~calls'[Len(calls')].ok)
            => /\ final_results' = final_results
               /\ stdout' = stdout
               /\ ci' = ci + 1
               /\ pc' = "for chunk"]_vars
    /\ [][(JustFailed /\ ci <= Len(log_chunks))
            => /\ Len(calls') = Len(calls) + 1
               /\ calls'[Len(calls')].file = fi
               /\ calls'[Len(calls')].chunk = calls[Len(calls)].chunk + 1]_vars
    /\ [](\A i, j \in 1..Len(calls) :
            (calls[i].file = calls[j].file /\ calls[i].chunk = calls[j].chunk) => i = j)
    /\ JustFailed ~> (pc = "for log_path" /\ Len(emitted) = fi - 1)

\* C6's case: in one file a failure after a chunk that gave detections, in
\* the next a failure before one, and both files' results printed.
C6_Witness ==
    /\ pc = "done"
    /\ Len(calls) = 4
    /\ calls[1].ok /\ calls[1].got # <<>> /\ ~calls[2].ok /\ calls[2].file = 1
    /\ ~calls[3].ok /\ calls[4].ok /\ calls[4].got # <<>> /\ calls[3].file = 2
    /\ emitted = <<calls[1].got, calls[4].got>>

\* A string of a JSON text that the decoder's patterns can take for the end
\* of the array or for a think block.
Misleading(sig) ==
    \/ \E i \in 1..Len(sig) : sig[i] \in {"T", "U"}
    \/ \E i \in 1..Len(sig) :
          sig[i] = "}" /\ SkipWs(sig, i + 1) <= Len(sig) /\ sig[SkipWs(sig, i + 1)] = "]"

PlainDetections == {Detection(sig) : sig \in {b \in SigBodies : ~Misleading(b)}}

\* Prose of words, punctuation and whitespace.
IsProse(text) == \A i \in 1..Len(text) : text[i] \in {"a", "s", ",", ":", "n"}

C8_RoundTripAnyArray ==
    (pc = "decoded" /\ reply.wrapped /\ IsProse(reply.pre) /\ IsProse(reply.post))
        => (result.value.t = "arr" /\ result.value.elems = reply.array)

\* C8, amended: the text of an array of detection objects decodes to that
\* array; so it does with a think block and prose of words around it,
\* provided no string of the array holds a think marker or a closing brace
\* followed by a closing bracket.
C8_RoundTrip ==
    (pc = "decoded" /\ reply.wrapped /\ IsProse(reply.pre) /\ IsProse(reply.post)
        /\ \/ reply.pre \o reply.think \o reply.post = <<>>
           \/ \A i \in 1..Len(reply.array) : reply.array[i] \in PlainDetections)
        => (~result.raised /\ result.value.t = "arr" /\ result.value.elems = reply.array)

\* C8's case: two detections after a think block and prose, recovered by
\* the bracket pattern.
C8_Witness ==
    /\ pc = "decoded"
    /\ reply.wrapped
    /\ Len(reply.array) = 2
    /\ reply.array[1] # reply.array[2]
    /\ \A i \in 1..2 : reply.array[i] \in PlainDetections
    /\ reply.think # <<>>
    /\ reply.pre = <<"a", ":", "s">>
    /\ reply.post = <<"s", "a">>
    /\ result.value.elems = reply.array

\* The detections of the calls from the i-th on, in order.
RECURSIVE GotFrom(_)
GotFrom(i) == IF i > Len(calls) THEN <<>> ELSE calls[i].got \o GotFrom(i + 1)

\* C9: the list a run prints last holds, in processing order, the
\* detections decoded from every chunk of every file.
C9_AggregationAcrossFiles ==
    pc = "done" => emitted[Len(emitted)] = GotFrom(1)

\* C10: no chunk of create_chunks is empty, and no lines give no chunks.
C10_NoEmptyChunk ==
    pc = "chunked" =>
        /\ \A i \in 1..Len(log_chunks) : log_chunks[i] # <<>>
        /\ lines = <<>> => log_chunks = <<>>

====
